---- MODULE Spec2Model ----
(***************************************************************************)
(* Expression-graph automatic differentiation of gtsam_unstable:           *)
(* Augmented<T> (a value and its Jacobian map) and the ExpressionNode      *)
(* hierarchy Constant / Leaf / Unary / Binary / Ternary of                 *)
(* gtsam_unstable/nonlinear/Expression-inl.h.                              *)
(*                                                                         *)
(* Nodes live in an arena (the sequence nodes); a boost::shared_ptr to a   *)
(* node is the index of the node, so one node can be the child of several  *)
(* parents and of several argument slots.  Matrices are sequences of rows  *)
(* over the integers (exact arithmetic stands for double).                 *)
(***************************************************************************)
EXTENDS Integers, Sequences, FiniteSets

\* Number of function nodes (Unary/Binary/Ternary) built on top of the atoms.
MaxFnNodes == 2

\* The keys of the variables the caller works with.
Keys == {1, 2}

VARIABLES nodes, result

vars == <<nodes, result>>

----------------------------------------------------------------------------
(* Value types: LieScalar has dim 1, Point2 has dim 2.                      *)

Types == {"LieScalar", "Point2"}

NoValue == [type |-> "none", v |-> <<>>]

Scalar(x) == [type |-> "LieScalar", v |-> <<x>>]

Point(x, y) == [type |-> "Point2", v |-> <<x, y>>]

\* t.dim()
dim(t) == Len(t.v)

----------------------------------------------------------------------------
(* gtsam Matrix (Eigen::MatrixXd): a sequence of rows.                      *)

\* A default-constructed Matrix (0 x 0), as in "Matrix H;".
EmptyMatrix == <<>>

\* Outcome of an Eigen operation on operands whose dimensions do not fit.
BadMatrix == << <<>> >>

Rows(A) == Len(A)

Cols(A) == IF Len(A) = 0 THEN 0 ELSE Len(A[1])

Identity(n) == [i \in 1..n |-> [j \in 1..n |-> IF i = j THEN 1 ELSE 0]]

RECURSIVE DotFrom(_, _, _, _, _)
DotFrom(A, B, i, j, k) ==
  IF k = 0 THEN 0 ELSE A[i][k] * B[k][j] + DotFrom(A, B, i, j, k - 1)

\* H * B
MatMul(A, B) ==
  IF A = BadMatrix \/ B = BadMatrix \/ Rows(A) = 0 \/ Rows(B) = 0
     \/ Cols(A) # Rows(B)
  THEN BadMatrix
  ELSE [i \in 1..Rows(A) |-> [j \in 1..Cols(B) |-> DotFrom(A, B, i, j, Cols(A))]]

\* A += B
MatAdd(A, B) ==
  IF A = BadMatrix \/ B = BadMatrix \/ Rows(A) # Rows(B) \/ Cols(A) # Cols(B)
  THEN BadMatrix
  ELSE [i \in 1..Rows(A) |-> [j \in 1..Cols(A) |-> A[i][j] + B[i][j]]]

MatNeg(A) == [i \in 1..Rows(A) |-> [j \in 1..Cols(A) |-> 0 - A[i][j]]]

MatScale(s, A) == [i \in 1..Rows(A) |-> [j \in 1..Cols(A) |-> s * A[i][j]]]

----------------------------------------------------------------------------
(* JacobianMap: std::map<Key, Matrix>, a function from a set of keys.       *)

EmptyMap == <<>>

MinKey(S) == CHOOSE k \in S : \A x \in S : k <= x

\* One iteration of the loop of Augmented::add, with plain insertion.
addTermInsertOnly(jacobians_, H, key, block) ==
  [x \in (DOMAIN jacobians_) \cup {key} |->
     IF x = key THEN MatMul(H, block) ELSE jacobians_[x]]

\* One iteration of the loop of Augmented::add: find, then += or insert.
addTerm(jacobians_, H, key, block) ==
  IF key \in DOMAIN jacobians_
  THEN [jacobians_ EXCEPT ![key] = MatAdd(@, MatMul(H, block))]
  ELSE [x \in (DOMAIN jacobians_) \cup {key} |->
          IF x = key THEN MatMul(H, block) ELSE jacobians_[x]]

\* BOOST_FOREACH over terms, in key order; todo is what is left to visit.
RECURSIVE addLoop(_, _, _, _)
addLoop(jacobians_, H, terms, todo) ==
  IF todo = {} THEN jacobians_
  ELSE LET k == MinKey(todo)
       IN addLoop(addTerm(jacobians_, H, k, terms[k]), H, terms, todo \ {k})

\* Augmented::add(H, terms)
add(jacobians_, H, terms) == addLoop(jacobians_, H, terms, DOMAIN terms)

\* Number of products H * term.second that one call add(H, terms) performs.
Products(terms) == Cardinality(DOMAIN terms)

----------------------------------------------------------------------------
(* Augmented<T>: value_, jacobians_.  products is bookkeeping: for each     *)
(* (H, map) pair handed to the constructor, the number of products H took   *)
(* part in.                                                                 *)

\* Augmented(const T& t)
AugmentedConstant(t) ==
  [value_ |-> t, jacobians_ |-> EmptyMap, products |-> <<>>]

\* Augmented(const T& t, Key key), with a zero block instead of the identity.
AugmentedLeafZero(t, key) ==
  [value_ |-> t,
   jacobians_ |-> [x \in {key} |-> MatScale(0, Identity(dim(t)))],
   products |-> <<>>]

\* Augmented(const T& t, Key key)
AugmentedLeaf(t, key) ==
  [value_ |-> t,
   jacobians_ |-> [x \in {key} |-> Identity(dim(t))],
   products |-> <<>>]

\* Augmented(const T& t, const Matrix& H, const JacobianMap& jacobians)
Augmented1(t, H, jacobians) ==
  [value_ |-> t,
   jacobians_ |-> add(EmptyMap, H, jacobians),
   products |-> <<Products(jacobians)>>]

\* Augmented(t, H1, jacobians1, H2, jacobians2)
Augmented2(t, H1, jacobians1, H2, jacobians2) ==
  [value_ |-> t,
   jacobians_ |-> add(add(EmptyMap, H1, jacobians1), H2, jacobians2),
   products |-> <<Products(jacobians1), Products(jacobians2)>>]

\* Augmented(t, H1, jacobians1, H2, jacobians2, H3, jacobians3), leaving
\* out add(H3, jacobians3).
Augmented3NoThird(t, H1, jacobians1, H2, jacobians2, H3, jacobians3) ==
  [value_ |-> t,
   jacobians_ |-> add(add(EmptyMap, H2, jacobians2), H1, jacobians1),
   products |-> <<Products(jacobians1), Products(jacobians2), 0>>]

\* Augmented(t, H1, jacobians1, H2, jacobians2, H3, jacobians3):
\* add(H2, ..), add(H3, ..), add(H1, ..) in this order.
Augmented3(t, H1, jacobians1, H2, jacobians2, H3, jacobians3) ==
  [value_ |-> t,
   jacobians_ |-> add(add(add(EmptyMap, H2, jacobians2), H3, jacobians3),
                      H1, jacobians1),
   products |-> <<Products(jacobians1), Products(jacobians2),
                  Products(jacobians3)>>]

\* Augmented::constant()
constant(a) == DOMAIN a.jacobians_ = {}

----------------------------------------------------------------------------
(* Wrapped functions f(arg..., optional<Matrix&>...) supplied by callers.   *)

UnaryFunctions == {"sqNorm"}

BinaryFunctions == {"scale", "between"}

TernaryFunctions == {"evaluateError"}

ArgTypes(f) ==
  CASE f = "sqNorm" -> <<"Point2">>
    [] f = "scale" -> <<"LieScalar", "Point2">>
    [] f = "between" -> <<"Point2", "Point2">>
    [] f = "evaluateError" -> <<"LieScalar", "Point2", "Point2">>

ResultType(f) == IF f = "sqNorm" THEN "LieScalar" ELSE "Point2"

\* The measurement of the ternary error function measured - (s * d + b).
measured == Point(7, 9)

FnValue(f, a) ==
  CASE f = "sqNorm" -> Scalar(a[1].v[1] * a[1].v[1] + a[1].v[2] * a[1].v[2])
    [] f = "scale" -> Point(a[1].v[1] * a[2].v[1], a[1].v[1] * a[2].v[2])
    [] f = "between" -> Point(a[2].v[1] - a[1].v[1], a[2].v[2] - a[1].v[2])
    [] f = "evaluateError" ->
         Point(measured.v[1] - (a[1].v[1] * a[2].v[1] + a[3].v[1]),
               measured.v[2] - (a[1].v[1] * a[2].v[2] + a[3].v[2]))

\* The derivative of f in its i-th argument at a.
FnJacobian(f, a, i) ==
  CASE f = "sqNorm" -> << <<2 * a[1].v[1], 2 * a[1].v[2]>> >>
    [] f = "scale" ->
         IF i = 1 THEN << <<a[2].v[1]>>, <<a[2].v[2]>> >>
         ELSE MatScale(a[1].v[1], Identity(2))
    [] f = "between" ->
         IF i = 1 THEN MatNeg(Identity(2)) ELSE Identity(2)
    [] f = "evaluateError" ->
         IF i = 1 THEN << <<0 - a[2].v[1]>>, <<0 - a[2].v[2]>> >>
         ELSE IF i = 2 THEN MatScale(0 - a[1].v[1], Identity(2))
         ELSE MatNeg(Identity(2))

\* One call of a wrapped function: req[i] is TRUE when the i-th Jacobian
\* slot is passed (not boost::none).  An unrequested H stays as constructed.
function_(f, a, req) ==
  [value |-> FnValue(f, a),
   H |-> [i \in 1..Len(a) |->
            IF req[i] THEN FnJacobian(f, a, i) ELSE EmptyMatrix],
   requested |-> req]

----------------------------------------------------------------------------
(* Values: Key -> typed value, or nothing stored under the key.             *)

Absent == NoValue

\* What a Values container may hold under key k.
Bindings(k) == {Absent, Scalar(k + 1), Point(k, k + 2)}

ValuesSet ==
  {vals \in [Keys -> UNION {Bindings(k) : k \in Keys}] :
     \A k \in Keys : vals[k] \in Bindings(k)}

LookupErrors == {"ValuesKeyDoesNotExist", "ValuesIncorrectType"}

\* values.at<T>(key)
ValuesAt(values, T, key) ==
  IF values[key] = Absent
  THEN [status |-> "ValuesKeyDoesNotExist", value |-> NoValue]
  ELSE IF values[key].type # T
  THEN [status |-> "ValuesIncorrectType", value |-> NoValue]
  ELSE [status |-> "ok", value |-> values[key]]

----------------------------------------------------------------------------
(* Expression nodes.  A node is a record; the fields a variant does not     *)
(* have are 0 / NoValue / "".  expressionA1_ is expressionA_ of a Unary.    *)

Node(kind, T, c, k, f, a1, a2, a3) ==
  [kind |-> kind, T |-> T, constant_ |-> c, key_ |-> k, function_ |-> f,
   expressionA1_ |-> a1, expressionA2_ |-> a2, expressionA3_ |-> a3]

\* ConstantExpression(const T& value)
ConstantExpression(value) ==
  Node("Constant", value.type, value, 0, "", 0, 0, 0)

\* LeafExpression<T>(Key key)
LeafExpression(T, key) == Node("Leaf", T, NoValue, key, "", 0, 0, 0)

\* UnaryExpression(Function f, const Expression<A>& e)
UnaryExpression(f, e) ==
  Node("Unary", ResultType(f), NoValue, 0, f, e, 0, 0)

\* BinaryExpression(Function f, e1, e2)
BinaryExpression(f, e1, e2) ==
  Node("Binary", ResultType(f), NoValue, 0, f, e1, e2, 0)

\* TernaryExpression(Function f, e1, e2, e3)
TernaryExpression(f, e1, e2, e3) ==
  Node("Ternary", ResultType(f), NoValue, 0, f, e1, e2, e3)

\* The argument slots of node n, as node indices.
Children(n) ==
  CASE nodes[n].kind = "Unary" -> <<nodes[n].expressionA1_>>
    [] nodes[n].kind = "Binary" ->
         <<nodes[n].expressionA1_, nodes[n].expressionA2_>>
    [] nodes[n].kind = "Ternary" ->
         <<nodes[n].expressionA1_, nodes[n].expressionA2_,
           nodes[n].expressionA3_>>
    [] OTHER -> <<>>

----------------------------------------------------------------------------
(* keys()                                                                   *)

RECURSIVE keys(_)

\* ConstantExpression::keys
ConstantKeys(n) == {}

\* LeafExpression::keys
LeafKeys(n) == {nodes[n].key_}

\* UnaryExpression::keys
UnaryKeys(n) == keys(nodes[n].expressionA1_)

\* BinaryExpression::keys
BinaryKeys(n) ==
  LET keys1 == keys(nodes[n].expressionA1_)
      keys2 == keys(nodes[n].expressionA2_)
  IN keys1 \cup keys2

\* TernaryExpression::keys without the third argument.
TernaryKeysTwo(n) ==
  LET keys1 == keys(nodes[n].expressionA1_)
      keys2 == keys(nodes[n].expressionA2_)
  IN keys1 \cup keys2

\* TernaryExpression::keys
TernaryKeys(n) ==
  LET keys1 == keys(nodes[n].expressionA1_)
      keys2 == keys(nodes[n].expressionA2_)
      keys3 == keys(nodes[n].expressionA3_)
  IN keys1 \cup (keys2 \cup keys3)

\* virtual ExpressionNode::keys
keys(n) ==
  CASE nodes[n].kind = "Constant" -> ConstantKeys(n)
    [] nodes[n].kind = "Leaf" -> LeafKeys(n)
    [] nodes[n].kind = "Unary" -> UnaryKeys(n)
    [] nodes[n].kind = "Binary" -> BinaryKeys(n)
    [] nodes[n].kind = "Ternary" -> TernaryKeys(n)

----------------------------------------------------------------------------
(* value(values).  A call returns [status, value, requested]: status is     *)
(* "ok" or the exception that left the call, requested the Jacobian slots   *)
(* this node passed to its wrapped function.  order is the order in which   *)
(* the build evaluates the arguments of one function call, "ltr" or "rtl"   *)
(* (C++ leaves it unspecified).                                             *)

Orders == {"ltr", "rtl"}

Thrown(status) == [status |-> status, value |-> NoValue, requested |-> <<>>]

Reverse(s) == [i \in 1..Len(s) |-> s[Len(s) + 1 - i]]

\* The status of the first call in rs that threw, "ok" when none did.
RECURSIVE FirstError(_)
FirstError(rs) ==
  IF rs = <<>> THEN "ok"
  ELSE IF Head(rs).status # "ok" THEN Head(rs).status
  ELSE FirstError(Tail(rs))

InOrder(rs, order) == IF order = "ltr" THEN rs ELSE Reverse(rs)

RECURSIVE value(_, _, _)

\* ConstantExpression::value
ConstantValue(n, values, order) ==
  [status |-> "ok", value |-> nodes[n].constant_, requested |-> <<>>]

\* LeafExpression::value, returning a default T() when the lookup fails.
LeafValueDefault(n, values, order) ==
  LET r == ValuesAt(values, nodes[n].T, nodes[n].key_)
  IN [status |-> "ok",
      value |-> IF r.status = "ok" THEN r.value
                ELSE IF nodes[n].T = "LieScalar" THEN Scalar(0)
                ELSE Point(0, 0),
      requested |-> <<>>]

\* LeafExpression::value
LeafValue(n, values, order) ==
  LET r == ValuesAt(values, nodes[n].T, nodes[n].key_)
  IN [status |-> r.status, value |-> r.value, requested |-> <<>>]

\* UnaryExpression::value
UnaryValue(n, values, order) ==
  LET a == value(nodes[n].expressionA1_, values, order)
  IN IF a.status # "ok" THEN Thrown(a.status)
     ELSE LET r == function_(nodes[n].function_, <<a.value>>, <<FALSE>>)
          IN [status |-> "ok", value |-> r.value, requested |-> r.requested]

\* BinaryExpression::value
BinaryValue(n, values, order) ==
  LET a1 == value(nodes[n].expressionA1_, values, order)
      a2 == value(nodes[n].expressionA2_, values, order)
      err == FirstError(InOrder(<<a1, a2>>, order))
  IN IF err # "ok" THEN Thrown(err)
     ELSE LET r == function_(nodes[n].function_, <<a1.value, a2.value>>,
                             <<FALSE, FALSE>>)
          IN [status |-> "ok", value |-> r.value, requested |-> r.requested]

\* TernaryExpression::value, passing the second argument's value twice.
TernaryValueTwice(n, values, order) ==
  LET a1 == value(nodes[n].expressionA1_, values, order)
      a2 == value(nodes[n].expressionA2_, values, order)
      a3 == value(nodes[n].expressionA3_, values, order)
      err == FirstError(InOrder(<<a1, a2, a3>>, order))
  IN IF err # "ok" THEN Thrown(err)
     ELSE LET r == function_(nodes[n].function_,
                             <<a1.value, a2.value, a2.value>>,
                             <<FALSE, FALSE, FALSE>>)
          IN [status |-> "ok", value |-> r.value, requested |-> r.requested]

\* TernaryExpression::value
TernaryValue(n, values, order) ==
  LET a1 == value(nodes[n].expressionA1_, values, order)
      a2 == value(nodes[n].expressionA2_, values, order)
      a3 == value(nodes[n].expressionA3_, values, order)
      err == FirstError(InOrder(<<a1, a2, a3>>, order))
  IN IF err # "ok" THEN Thrown(err)
     ELSE LET r == function_(nodes[n].function_,
                             <<a1.value, a2.value, a3.value>>,
                             <<FALSE, FALSE, FALSE>>)
          IN [status |-> "ok", value |-> r.value, requested |-> r.requested]

\* virtual ExpressionNode::value
value(n, values, order) ==
  CASE nodes[n].kind = "Constant" -> ConstantValue(n, values, order)
    [] nodes[n].kind = "Leaf" -> LeafValue(n, values, order)
    [] nodes[n].kind = "Unary" -> UnaryValue(n, values, order)
    [] nodes[n].kind = "Binary" -> BinaryValue(n, values, order)
    [] nodes[n].kind = "Ternary" -> TernaryValue(n, values, order)

----------------------------------------------------------------------------
(* augmented(values).  A call returns [status, aug, requested, used]: aug   *)
(* is the Augmented<T> returned (NoAugmented when the call threw),          *)
(* requested[i] tells whether slot i was passed to the wrapped function,    *)
(* used[i] whether H_i took part in a product of Augmented::add.            *)

NoAugmented == [value_ |-> NoValue, jacobians_ |-> EmptyMap, products |-> <<>>]

AugThrown(status) ==
  [status |-> status, aug |-> NoAugmented, requested |-> <<>>, used |-> <<>>]

RECURSIVE augmented(_, _)

\* ConstantExpression::augmented
ConstantAugmented(n, values) ==
  LET t == value(n, values, "ltr")
  IN [status |-> "ok", aug |-> AugmentedConstant(t.value),
      requested |-> <<>>, used |-> <<>>]

\* LeafExpression::augmented
LeafAugmented(n, values) ==
  LET t == value(n, values, "ltr")
  IN IF t.status # "ok" THEN AugThrown(t.status)
     ELSE [status |-> "ok", aug |-> AugmentedLeaf(t.value, nodes[n].key_),
           requested |-> <<>>, used |-> <<>>]

\* UnaryExpression::augmented
UnaryAugmented(n, values) ==
  LET argument == augmented(nodes[n].expressionA1_, values)
  IN IF argument.status # "ok" THEN AugThrown(argument.status)
     ELSE LET r == function_(nodes[n].function_, <<argument.aug.value_>>,
                             <<~constant(argument.aug)>>)
              H == r.H[1]
              a == Augmented1(r.value, H, argument.aug.jacobians_)
          IN [status |-> "ok", aug |-> a, requested |-> r.requested,
              used |-> <<a.products[1] > 0>>]

\* BinaryExpression::augmented, asking for H2 when argument1 is not constant.
BinaryAugmentedCopied(n, values) ==
  LET argument1 == augmented(nodes[n].expressionA1_, values)
      argument2 == augmented(nodes[n].expressionA2_, values)
      err == FirstError(<<argument1, argument2>>)
  IN IF err # "ok" THEN AugThrown(err)
     ELSE LET r == function_(nodes[n].function_,
                             <<argument1.aug.value_, argument2.aug.value_>>,
                             <<~constant(argument1.aug),
                               ~constant(argument1.aug)>>)
              H1 == r.H[1]
              H2 == r.H[2]
              a == Augmented2(r.value, H1, argument1.aug.jacobians_,
                              H2, argument2.aug.jacobians_)
          IN [status |-> "ok", aug |-> a, requested |-> r.requested,
              used |-> <<a.products[1] > 0, a.products[2] > 0>>]

\* BinaryExpression::augmented
BinaryAugmented(n, values) ==
  LET argument1 == augmented(nodes[n].expressionA1_, values)
      argument2 == augmented(nodes[n].expressionA2_, values)
      err == FirstError(<<argument1, argument2>>)
  IN IF err # "ok" THEN AugThrown(err)
     ELSE LET r == function_(nodes[n].function_,
                             <<argument1.aug.value_, argument2.aug.value_>>,
                             <<~constant(argument1.aug),
                               ~constant(argument2.aug)>>)
              H1 == r.H[1]
              H2 == r.H[2]
              a == Augmented2(r.value, H1, argument1.aug.jacobians_,
                              H2, argument2.aug.jacobians_)
          IN [status |-> "ok", aug |-> a, requested |-> r.requested,
              used |-> <<a.products[1] > 0, a.products[2] > 0>>]

\* TernaryExpression::augmented: the Augmented returned is built by the
\* two-block constructor from (H1, argument1) and (H2, argument2); H3 and
\* argument3.jacobians() are not handed to any constructor.
TernaryAugmented(n, values) ==
  LET argument1 == augmented(nodes[n].expressionA1_, values)
      argument2 == augmented(nodes[n].expressionA2_, values)
      argument3 == augmented(nodes[n].expressionA3_, values)
      err == FirstError(<<argument1, argument2, argument3>>)
  IN IF err # "ok" THEN AugThrown(err)
     ELSE LET r == function_(nodes[n].function_,
                             <<argument1.aug.value_, argument2.aug.value_,
                               argument3.aug.value_>>,
                             <<~constant(argument1.aug),
                               ~constant(argument2.aug),
                               ~constant(argument3.aug)>>)
              H1 == r.H[1]
              H2 == r.H[2]
              H3 == r.H[3]
              a == Augmented2(r.value, H1, argument1.aug.jacobians_,
                              H2, argument2.aug.jacobians_)
          IN [status |-> "ok", aug |-> a, requested |-> r.requested,
              used |-> <<a.products[1] > 0, a.products[2] > 0, FALSE>>]

\* virtual ExpressionNode::augmented
augmented(n, values) ==
  CASE nodes[n].kind = "Constant" -> ConstantAugmented(n, values)
    [] nodes[n].kind = "Leaf" -> LeafAugmented(n, values)
    [] nodes[n].kind = "Unary" -> UnaryAugmented(n, values)
    [] nodes[n].kind = "Binary" -> BinaryAugmented(n, values)
    [] nodes[n].kind = "Ternary" -> TernaryAugmented(n, values)

----------------------------------------------------------------------------
(* The state machine.  The caller builds expressions bottom-up and calls    *)
(* keys / value / augmented on the expression built last; result holds the  *)
(* call in progress and what it returned, until the caller discards it.     *)

\* The type of the leaf the caller binds to key k.
LeafType(k) == IF k % 2 = 1 THEN "LieScalar" ELSE "Point2"

\* The constants the caller wraps, in the order it builds them.
ConstantValues == <<Scalar(3), Point(1, 2)>>

NumAtoms == Len(ConstantValues) + Cardinality(Keys)

NoResult ==
  [op |-> "none", n |-> 0, values |-> <<>>,
   status |-> "", keys |-> {}, value |-> NoValue, jacobians |-> EmptyMap,
   requested |-> <<>>, used |-> <<>>]

\* The expression the caller built last.
root == Len(nodes)

\* No call is in progress and no returned object is held.
Idle == result.op = "none"

Init ==
  /\ nodes = <<>>
  /\ result = NoResult

\* Expression<T>(const T& value)
NewConstant ==
  /\ Idle
  /\ Len(nodes) < Len(ConstantValues)
  /\ nodes' = Append(nodes, ConstantExpression(ConstantValues[Len(nodes) + 1]))
  /\ UNCHANGED result

\* Expression<T>(Key key)
NewLeaf ==
  /\ Idle
  /\ Len(nodes) >= Len(ConstantValues)
  /\ Len(nodes) < NumAtoms
  /\ LET k == Len(nodes) - Len(ConstantValues) + 1
     IN nodes' = Append(nodes, LeafExpression(LeafType(k), k))
  /\ UNCHANGED result

\* Function nodes are built over the constants and leaves, MaxFnNodes at most.
CanBuild == Len(nodes) >= NumAtoms /\ Len(nodes) < NumAtoms + MaxFnNodes

\* Expression<T>(f, e)
NewUnary ==
  /\ Idle
  /\ CanBuild
  /\ \E f \in UnaryFunctions, e \in 1..Len(nodes) :
       /\ nodes[e].T = ArgTypes(f)[1]
       /\ nodes' = Append(nodes, UnaryExpression(f, e))
  /\ UNCHANGED result

\* Expression<T>(f, e1, e2)
NewBinary ==
  /\ Idle
  /\ CanBuild
  /\ \E f \in BinaryFunctions, e1 \in 1..Len(nodes), e2 \in 1..Len(nodes) :
       /\ nodes[e1].T = ArgTypes(f)[1]
       /\ nodes[e2].T = ArgTypes(f)[2]
       /\ nodes' = Append(nodes, BinaryExpression(f, e1, e2))
  /\ UNCHANGED result

\* Expression<T>(f, e1, e2, e3)
NewTernary ==
  /\ Idle
  /\ CanBuild
  /\ \E f \in TernaryFunctions, e1 \in 1..Len(nodes), e2 \in 1..Len(nodes),
        e3 \in 1..Len(nodes) :
       /\ nodes[e1].T = ArgTypes(f)[1]
       /\ nodes[e2].T = ArgTypes(f)[2]
       /\ nodes[e3].T = ArgTypes(f)[3]
       /\ nodes' = Append(nodes, TernaryExpression(f, e1, e2, e3))
  /\ UNCHANGED result

\* root->keys()
CallKeys ==
  /\ Idle
  /\ root >= 1
  /\ result' = [NoResult EXCEPT !.op = "keys", !.n = root, !.status = "ok",
                                !.keys = keys(root)]
  /\ UNCHANGED nodes

\* root->value(values)
CallValue ==
  /\ Idle
  /\ root >= 1
  /\ \E values \in ValuesSet, order \in Orders :
       LET r == value(root, values, order)
       IN result' = [NoResult EXCEPT !.op = "value", !.n = root,
                                     !.values = values,
                                     !.status = r.status, !.value = r.value,
                                     !.requested = r.requested]
  /\ UNCHANGED nodes

\* root->augmented(values)
CallAugmented ==
  /\ Idle
  /\ root >= 1
  /\ \E values \in ValuesSet :
       LET r == augmented(root, values)
       IN result' = [NoResult EXCEPT !.op = "augmented", !.n = root,
                                     !.values = values,
                                     !.status = r.status,
                                     !.value = r.aug.value_,
                                     !.jacobians = r.aug.jacobians_,
                                     !.requested = r.requested,
                                     !.used = r.used]
  /\ UNCHANGED nodes

\* The (local Jacobian, child mapping) pairs that node n hands over when
\* every slot is served: H_i is filled exactly when argument i is not
\* constant.
CtorPairs(n, values) ==
  LET args == [i \in 1..Len(Children(n)) |-> augmented(Children(n)[i], values)]
      r == function_(nodes[n].function_,
                     [i \in 1..Len(args) |-> args[i].aug.value_],
                     [i \in 1..Len(args) |-> ~constant(args[i].aug)])
  IN [i \in 1..Len(args) |-> [H |-> r.H[i], terms |-> args[i].aug.jacobians_]]

\* Augmented<T>(t, H1, jacobians1, H2, jacobians2[, H3, jacobians3]): the
\* two- and three-block constructors applied to the blocks of the root.
ConstructAugmented ==
  /\ Idle
  /\ root >= 1
  /\ nodes[root].kind \in {"Binary", "Ternary"}
  /\ \E values \in ValuesSet :
       /\ augmented(root, values).status = "ok"
       /\ \E p \in {CtorPairs(root, values)} :
          \E t \in {value(root, values, "ltr").value} :
          \E a \in {IF Len(p) = 2
                     THEN Augmented2(t, p[1].H, p[1].terms, p[2].H, p[2].terms)
                     ELSE Augmented3(t, p[1].H, p[1].terms, p[2].H, p[2].terms,
                                     p[3].H, p[3].terms)} :
            result' = [NoResult EXCEPT !.op = "construct", !.n = root,
                                       !.values = values, !.status = "ok",
                                       !.value = a.value_,
                                       !.jacobians = a.jacobians_]
  /\ UNCHANGED nodes

\* The caller drops the returned object (or has caught the exception).
Discard ==
  /\ ~Idle
  /\ result' = NoResult
  /\ UNCHANGED nodes

Next ==
  \/ NewConstant
  \/ NewLeaf
  \/ NewUnary
  \/ NewBinary
  \/ NewTernary
  \/ CallKeys
  \/ CallValue
  \/ CallAugmented
  \/ ConstructAugmented
  \/ Discard

Spec == Init /\ [][Next]_vars

----------------------------------------------------------------------------
(* Reference notions the properties are stated with.                        *)

FnKinds == {"Unary", "Binary", "Ternary"}

\* The nodes reachable from the nodes of S through argument slots.
RECURSIVE ReachFrom(_)
ReachFrom(S) ==
  LET S2 == S \cup UNION {{Children(m)[i] : i \in 1..Len(Children(m))} : m \in S}
  IN IF S2 = S THEN S ELSE ReachFrom(S2)

Subtree(n) == ReachFrom({n})

ReachableLeafKeys(n) ==
  {nodes[m].key_ : m \in {x \in Subtree(n) : nodes[x].kind = "Leaf"}}

\* The leaves under n whose lookup in values fails.
FailingLeaves(n, values) ==
  {m \in Subtree(n) :
     /\ nodes[m].kind = "Leaf"
     /\ \/ values[nodes[m].key_] = Absent
        \/ values[nodes[m].key_].type # nodes[m].T}

\* The Augmented Value of the i-th child of the node of the last call.
ChildAug(i) == augmented(Children(result.n)[i], result.values).aug

Arity == Len(Children(result.n))

\* The local Jacobian of the wrapped function of the node of the last call.
LocalH(i) ==
  FnJacobian(nodes[result.n].function_,
             [j \in 1..Arity |-> ChildAug(j).value_], i)

\* The contribution of child i to key k.
Contribution(i, k) == MatMul(LocalH(i), ChildAug(i).jacobians_[k])

RECURSIVE SumBlocks(_)
SumBlocks(bs) ==
  IF Len(bs) = 1 THEN bs[1] ELSE MatAdd(bs[1], SumBlocks(Tail(bs)))

\* The ascending sequence of the elements of a set of slots.
RECURSIVE Ascending(_)
Ascending(S) ==
  IF S = {} THEN <<>> ELSE <<MinKey(S)>> \o Ascending(S \ {MinKey(S)})

\* The chain rule over all children: per key, the sum of the contributions
\* of the children that have the key.
ChainRule ==
  [k \in UNION {DOMAIN ChildAug(i).jacobians_ : i \in 1..Arity} |->
     LET has == Ascending({i \in 1..Arity : k \in DOMAIN ChildAug(i).jacobians_})
     IN SumBlocks([x \in 1..Len(has) |-> Contribution(has[x], k)])]

AugmentedReturned(kinds) ==
  /\ result.op = "augmented"
  /\ result.status = "ok"
  /\ nodes[result.n].kind \in kinds

----------------------------------------------------------------------------
(* Properties.                                                              *)

\* C1: the Jacobian mapping returned by augmented() of a Ternary node is the
\* chain rule over all three children: per key, the sum of H_i * (child i's
\* block) over the children i in {1,2,3} that have the key.
C1_TernaryChainRule ==
  AugmentedReturned({"Ternary"}) => result.jacobians = ChainRule

\* C2: for every node and every Values binding holding all its leaves,
\* value() returns exactly the value component of augmented(), whatever the
\* order in which the build evaluates function arguments.
C2_ValueConsistency ==
  /\ AugmentedReturned({"Constant", "Leaf"} \cup FnKinds) =>
       \A order \in Orders :
         LET r == value(result.n, result.values, order)
         IN r.status = "ok" /\ r.value = result.value
  /\ (result.op = "value" /\ result.status = "ok") =>
       LET a == augmented(result.n, result.values)
       IN a.status = "ok" /\ a.aug.value_ = result.value

\* C2 witness: augmented() returned for a function node over a function
\* node, with a value that is a wrapped function's result.
C2_Witness ==
  /\ AugmentedReturned({"Ternary"})
  /\ \E i \in 1..Arity : nodes[Children(result.n)[i]].kind \in FnKinds
  /\ ChildAug(2).value_ # ChildAug(3).value_

\* C3: for a Binary node whose two arguments both depend on key k, the block
\* of k is H1 * (child 1's block) + H2 * (child 2's block).
C3_BinaryPathSum ==
  AugmentedReturned({"Binary"}) =>
    \A k \in (DOMAIN ChildAug(1).jacobians_) \cap (DOMAIN ChildAug(2).jacobians_) :
      /\ k \in DOMAIN result.jacobians
      /\ result.jacobians[k] = MatAdd(Contribution(1, k), Contribution(2, k))

\* C3 witness: a Binary node one of whose arguments is itself a function
\* node, both arguments depending on the same key, where the sum differs
\* from either contribution alone.
C3_Witness ==
  /\ AugmentedReturned({"Binary"})
  /\ \E i \in 1..2 : nodes[Children(result.n)[i]].kind \in FnKinds
  /\ \E k \in (DOMAIN ChildAug(1).jacobians_) \cap (DOMAIN ChildAug(2).jacobians_) :
       /\ result.jacobians[k] # Contribution(1, k)
       /\ result.jacobians[k] # Contribution(2, k)

\* C4: keys() of a node is exactly the set of keys of the Leaf nodes
\* reachable from it; a Constant yields {} and a Leaf yields {key}.
C4_KeySetAccuracy ==
  result.op = "keys" =>
    /\ result.keys = ReachableLeafKeys(result.n)
    /\ nodes[result.n].kind = "Constant" => result.keys = {}
    /\ nodes[result.n].kind = "Leaf" => result.keys = {nodes[result.n].key_}

\* C4 witness: keys() of a Ternary node whose third argument holds a key
\* that no other argument holds, with a sub-expression shared by two nodes.
C4_Witness ==
  /\ result.op = "keys"
  /\ nodes[result.n].kind = "Ternary"
  /\ keys(nodes[result.n].expressionA3_) \
       (keys(nodes[result.n].expressionA1_) \cup keys(nodes[result.n].expressionA2_)) # {}
  /\ \E m \in 1..Len(nodes) : \E c \in 1..Len(nodes) :
       /\ m # result.n
       /\ \E i \in 1..Len(Children(m)) : Children(m)[i] = c
       /\ \E i \in 1..Arity : Children(result.n)[i] = c

\* C5: the mapping returned by augmented() is empty if and only if keys()
\* of the node is empty.
C5_ConstantIffNoKeys ==
  AugmentedReturned({"Constant", "Leaf"} \cup FnKinds) =>
    ((DOMAIN result.jacobians = {}) <=> (keys(result.n) = {}))

\* C6: when the Values container lacks the key of a reachable Leaf, or holds
\* it with another type, value() and augmented() end in the lookup error of
\* such a leaf and return nothing.
C6_LookupErrorPropagates ==
  (result.op \in {"value", "augmented"}
     /\ FailingLeaves(result.n, result.values) # {}) =>
    /\ result.status \in LookupErrors
    /\ result.status \in
         {ValuesAt(result.values, nodes[m].T, nodes[m].key_).status :
            m \in FailingLeaves(result.n, result.values)}
    /\ result.value = NoValue
    /\ result.jacobians = EmptyMap
    /\ result.requested = <<>>

\* C6 witness: a call on a function node over a function node ended in the
\* type-mismatch error of a leaf.
C6_Witness ==
  /\ result.op \in {"value", "augmented"}
  /\ nodes[result.n].kind \in FnKinds
  /\ \E i \in 1..Arity : nodes[Children(result.n)[i]].kind \in FnKinds
  /\ result.status = "ValuesIncorrectType"
  /\ \A m \in FailingLeaves(result.n, result.values) :
       result.values[nodes[m].key_] # Absent

\* The mapping obtained by folding the pairs ps with add() in the order ord.
RECURSIVE FoldPairs(_, _, _)
FoldPairs(jac, ps, ord) ==
  IF ord = <<>> THEN jac
  ELSE FoldPairs(add(jac, ps[Head(ord)].H, ps[Head(ord)].terms), ps, Tail(ord))

\* All orders in which the pairs 1..n can be folded.
FoldOrders(n) ==
  {ord \in [1..n -> 1..n] : \A i, j \in 1..n : ord[i] = ord[j] => i = j}

\* C7: the mapping built by the two- and three-block constructors is the
\* same for every order of the add() calls: its keys are the keys of all
\* pairs, and the block of a key is the sum of H * block over the pairs
\* that have the key.
C7_OrderIndependent ==
  result.op = "construct" =>
    LET ps == CtorPairs(result.n, result.values)
    IN /\ \A ord \in FoldOrders(Len(ps)) :
            FoldPairs(EmptyMap, ps, ord) = result.jacobians
       /\ result.jacobians = ChainRule

\* C7 witness: the three-block constructor ran on pairs two of which hold
\* the same key.
C7_Witness ==
  /\ result.op = "construct"
  /\ Arity = 3
  /\ \E i, j \in 1..3 :
       /\ i # j
       /\ (DOMAIN ChildAug(i).jacobians_) \cap (DOMAIN ChildAug(j).jacobians_) # {}

\* C8: the mapping returned by augmented() of a Unary node has exactly the
\* keys of its child's mapping, each block being Df(child value) * (child's
\* block); a Leaf child's block is the identity of the dimension of its
\* value, so the block is Df itself.
C8_UnaryChainRule ==
  AugmentedReturned({"Unary"}) =>
    /\ DOMAIN result.jacobians = DOMAIN ChildAug(1).jacobians_
    /\ \A k \in DOMAIN result.jacobians :
         result.jacobians[k] = Contribution(1, k)
    /\ nodes[Children(result.n)[1]].kind = "Leaf" =>
         LET k == nodes[Children(result.n)[1]].key_
         IN /\ DOMAIN ChildAug(1).jacobians_ = {k}
            /\ ChildAug(1).jacobians_[k] = Identity(dim(ChildAug(1).value_))
            /\ result.jacobians[k] = LocalH(1)

\* C8 witness: augmented() returned for a Unary node over a Leaf.
C8_Witness ==
  /\ AugmentedReturned({"Unary"})
  /\ nodes[Children(result.n)[1]].kind = "Leaf"

\* C9: augmented() of a function node requests the Jacobian slot of
\* argument i if and only if child i's Augmented Value is not constant, and
\* value() requests no slot.
C9_SlotRequestedIffNonConstant ==
  /\ AugmentedReturned(FnKinds) =>
       /\ Len(result.requested) = Arity
       /\ \A i \in 1..Arity :
            result.requested[i] <=> (DOMAIN ChildAug(i).jacobians_ # {})
  /\ (result.op = "value" /\ result.status = "ok"
        /\ nodes[result.n].kind \in FnKinds) =>
       /\ Len(result.requested) = Arity
       /\ \A i \in 1..Arity : ~result.requested[i]

\* C9 witness: augmented() of a Binary node with a constant first argument
\* and a second argument that is not constant.
C9_Witness ==
  /\ AugmentedReturned({"Binary"})
  /\ ~result.requested[1]
  /\ result.requested[2]

\* C10: in augmented() of a function node, a local Jacobian H_i takes part
\* in a product of the accumulation if and only if it was requested from
\* the wrapped function in that call.
C10_RequestedIffUsed ==
  AugmentedReturned(FnKinds) =>
    \A i \in 1..Arity : result.used[i] <=> result.requested[i]

====
